---------------------------- MODULE Spec2Model ----------------------------
(***************************************************************************)
(* kube-fwd-socks: a SOCKS4/4a/5 proxy that resolves cluster DNS names to   *)
(* pods and relays the client connection over a Kubernetes port-forward.   *)
(*                                                                         *)
(* The model follows one accepted connection through socks::handle.  The   *)
(* client's byte stream is a sequence of bytes fixed at accept time; the   *)
(* handler consumes it from the front.  Strings are sequences of bytes.    *)
(* Every frame the handler hands to write_all is recorded in `sent`.       *)
(***************************************************************************)
EXTENDS Integers, Sequences, FiniteSets, TLC

(***************************************************************************)
(* Protocol constants (socks/v4.rs, socks/v5.rs).                          *)
(***************************************************************************)
V4_VERSION == 4
METHOD_CONNECT == 1
METHOD_BIND == 2
SOCKS4A_ADDRESS == <<0, 0, 0, 1>>
RESP_VERSION == 0
RESP_CODE_GRANTED == 90
RESP_CODE_REJECT_OR_FAILED == 91

V5_VERSION == 5
AUTH_NOT_REQUIRED == 0
AUTH_GSSAPI == 1
AUTH_USER_PASS == 2
AUTH_NONE == 255
CMD_CONNECT == 1
CMD_BIND == 2
CMD_UDP_ASSOCIATE == 3
ATYPE_IPV4 == 1
ATYPE_IPV6 == 4
ATYPE_DNS == 3
RESP_SUCCEEDED == 0
RESP_GENERAL_FAILURE == 1
RESP_NETWORK_UNREACHABLE == 3
RESP_HOST_UNREACHABLE == 4
RESP_CONNECTION_REFUSED == 5
RESP_COMMAND_NOT_SUPPORTED == 7
RESP_ADDRESS_NOT_SUPPORTED == 8

(***************************************************************************)
(* Bounds of the model.                                                    *)
(***************************************************************************)
\* bytes the client sends after its command request (relayed to the pod)
MaxPayload == 2
\* bytes the pod sends back through the port-forward stream
MaxPodBytes == 2
\* connections accepted by the acceptor
MaxConns == 3
\* bytes of the longest DNS name given to the response encoder
MaxNameLen == 256
\* bytes of the longest stream given to AuthRequest::parse on its own
MaxAuthLen == 5

(***************************************************************************)
(* Bytes, integers and strings.                                            *)
(***************************************************************************)
Byte == 0..255
U16_MAX == 65535

\* u16::to_be_bytes
ToBeBytes(p) == <<p \div 256, p % 256>>
\* read_u16: big-endian
FromBeBytes(b) == b[1] * 256 + b[2]

Take(s, n) == SubSeq(s, 1, n)
Drop(s, n) == SubSeq(s, n + 1, Len(s))
Prefixes(s) == {Take(s, n) : n \in 0..Len(s)}
Last(s) == s[Len(s)]
Front(s) == SubSeq(s, 1, Len(s) - 1)

None == "None"

\* ASCII
DOT == 46
S_svc == <<115, 118, 99>>
S_pod == <<112, 111, 100>>
S_cluster == <<99, 108, 117, 115, 116, 101, 114>>
S_local == <<108, 111, 99, 97, 108>>

COMMA == 44
EQUALS == 61

\* str::split(sep): the segments between separators; "" gives one empty segment
RECURSIVE SplitFrom(_, _, _, _)
SplitFrom(s, sep, i, cur) ==
    IF i > Len(s) THEN <<cur>>
    ELSE IF s[i] = sep THEN <<cur>> \o SplitFrom(s, sep, i + 1, <<>>)
    ELSE SplitFrom(s, sep, i + 1, Append(cur, s[i]))
Split(s, sep) == SplitFrom(s, sep, 1, <<>>)

\* [&str]::join(".")
RECURSIVE Join(_)
Join(segs) ==
    IF Len(segs) = 0 THEN <<>>
    ELSE IF Len(segs) = 1 THEN segs[1]
    ELSE segs[1] \o <<DOT>> \o Join(Tail(segs))

\* String::from_utf8: well-formed UTF-8 byte sequences (Unicode table 3-7)
Cont(b) == b \in 128..191
\* the length of the sequence a lead byte starts, 0 for a byte that starts none
Utf8Len(b) ==
    IF b <= 127 THEN 1
    ELSE IF b \in 194..223 THEN 2
    ELSE IF b \in 224..239 THEN 3
    ELSE IF b \in 240..244 THEN 4
    ELSE 0
\* the second byte c of a sequence led by b is in the range of b
Utf8Second(b, c) ==
    IF b = 224 THEN c \in 160..191
    ELSE IF b = 237 THEN c \in 128..159
    ELSE IF b = 240 THEN c \in 144..191
    ELSE IF b = 244 THEN c \in 128..143
    ELSE Cont(c)
\* a well-formed sequence starts at s[i]
Utf8At(s, i) ==
    LET n == Utf8Len(s[i]) IN
    /\ n >= 1 /\ i + n - 1 <= Len(s)
    /\ n >= 2 => Utf8Second(s[i], s[i + 1])
    /\ \A j \in (i + 2)..(i + n - 1) : Cont(s[j])
\* the continuation byte s[i] belongs to the sequence of a lead byte before it
Utf8Covered(s, i) ==
    \E k \in 1..3 :
        /\ i - k >= 1
        /\ Utf8Len(s[i - k]) > k
        /\ \A j \in (i - k + 1)..(i - 1) : Cont(s[j])
\* continuation bytes are never lead bytes, so s is well formed exactly when
\* every other byte starts a sequence and every continuation byte is in one
IsUtf8(s) ==
    \A i \in 1..Len(s) :
        IF Cont(s[i]) THEN Utf8Covered(s, i) ELSE Utf8At(s, i)

(***************************************************************************)
(* SOCKS4 codec (socks/v4.rs).                                             *)
(***************************************************************************)
V4Granted(dest_port, dest_ip) ==
    [version |-> RESP_VERSION, result |-> RESP_CODE_GRANTED,
     dest_port |-> dest_port, dest_ip |-> dest_ip]

V4RejectedOrFailed(dest_port, dest_ip) ==
    [version |-> RESP_VERSION, result |-> RESP_CODE_REJECT_OR_FAILED,
     dest_port |-> dest_port, dest_ip |-> dest_ip]

\* mutant: the port written in little-endian order
V4ToBufLittleEndian(r) ==
    <<r.version, r.result, r.dest_port % 256, r.dest_port \div 256>> \o r.dest_ip

V4ToBuf(r) ==
    <<r.version, r.result>> \o ToBeBytes(r.dest_port) \o r.dest_ip

(***************************************************************************)
(* SOCKS5 codec (socks/v5.rs).                                             *)
(***************************************************************************)
AuthMethods == {AUTH_NOT_REQUIRED, AUTH_GSSAPI, AUTH_USER_PASS, AUTH_NONE}
Command == {CMD_CONNECT, CMD_BIND, CMD_UDP_ASSOCIATE}

\* mutant: every offered byte is kept
FilterMethodsKeepAll(buf) == buf

\* buf.into_iter().filter_map(|v| AuthMethods::try_from(v).ok())
RECURSIVE FilterMethods(_)
FilterMethods(buf) ==
    IF Len(buf) = 0 THEN <<>>
    ELSE IF buf[1] \in AuthMethods
      THEN <<buf[1]>> \o FilterMethods(Tail(buf))
      ELSE FilterMethods(Tail(buf))

\* A parse result: kind "ok" with the value and the bytes consumed, or the
\* error.  kind "io" is an unexpected end of stream inside the frame.
ParseOk(v, used) == [kind |-> "ok", val |-> v, err |-> None, used |-> used]
ParseErr(kind, err, used) ==
    [kind |-> kind, val |-> None, err |-> err, used |-> used]

\* AuthRequest::parse
AuthRequestParse(s) ==
    IF Len(s) < 1 THEN ParseErr("io", "Io", Len(s))
    ELSE IF s[1] /= V5_VERSION THEN ParseErr("protocol", "General", 1)
    ELSE IF Len(s) < 2 THEN ParseErr("io", "Io", Len(s))
    ELSE LET method_count == s[2] IN
      IF method_count = 0 THEN ParseOk(<<>>, 2)
      ELSE IF Len(s) < 2 + method_count THEN ParseErr("io", "Io", Len(s))
      ELSE ParseOk(FilterMethods(SubSeq(s, 3, 2 + method_count)),
                   2 + method_count)

\* mutant: any recognised method is taken for the wanted one
AuthContainsAny(requests, method) == Len(requests) > 0

\* AuthRequest::contains
AuthContains(requests, method) == \E i \in 1..Len(requests) : requests[i] = method

\* From<AuthResponse> for Vec<u8>
AuthResponseBytes(method) == <<V5_VERSION, method>>

\* Address values: IpAddr(V4 | V6) or Dns(String)
AddrV4(b) == [t |-> "V4", b |-> b]
AddrV6(b) == [t |-> "V6", b |-> b]
AddrDns(b) == [t |-> "Dns", b |-> b]
UNSPECIFIED == AddrV4(<<0, 0, 0, 0>>)

\* From<Address> for Vec<u8>; a.len() as u8 truncates
AddressBytes(a) ==
    IF a.t = "V4" THEN <<ATYPE_IPV4>> \o a.b
    ELSE IF a.t = "V6" THEN <<ATYPE_IPV6>> \o a.b
    ELSE <<ATYPE_DNS, Len(a.b) % 256>> \o a.b

\* the address part of CommandRequest::parse, s starting at the atype byte
AddressParse(s) ==
    IF Len(s) < 1 THEN ParseErr("io", "Io", Len(s))
    ELSE LET atype == s[1] IN
      IF atype = ATYPE_IPV4 THEN
        IF Len(s) < 5 THEN ParseErr("io", "Io", Len(s))
        ELSE ParseOk(AddrV4(SubSeq(s, 2, 5)), 5)
      ELSE IF atype = ATYPE_IPV6 THEN
        IF Len(s) < 17 THEN ParseErr("io", "Io", Len(s))
        ELSE ParseOk(AddrV6(SubSeq(s, 2, 17)), 17)
      ELSE IF atype = ATYPE_DNS THEN
        IF Len(s) < 2 THEN ParseErr("io", "Io", Len(s))
        ELSE LET size == s[2] IN
          IF Len(s) < 2 + size THEN ParseErr("io", "Io", Len(s))
          ELSE IF ~IsUtf8(SubSeq(s, 3, 2 + size))
            THEN ParseErr("string", "FromUtf8Error", 2 + size)
          ELSE ParseOk(AddrDns(SubSeq(s, 3, 2 + size)), 2 + size)
      ELSE ParseErr("protocol", "UnsupportedAddressType", 1)

\* mutant: the parser reads one byte past the port
CommandRequestParseOverread(s) ==
    IF Len(s) < 1 THEN ParseErr("io", "Io", Len(s))
    ELSE IF s[1] /= V5_VERSION THEN ParseErr("protocol", "General", 1)
    ELSE IF Len(s) < 2 THEN ParseErr("io", "Io", Len(s))
    ELSE IF s[2] \notin Command THEN ParseErr("protocol", "UnsupportedCommand", 2)
    ELSE IF Len(s) < 3 THEN ParseErr("io", "Io", Len(s))
    ELSE LET a == AddressParse(Drop(s, 3)) IN
      IF a.kind /= "ok" THEN ParseErr(a.kind, a.err, 3 + a.used)
      ELSE IF Len(s) < 3 + a.used + 3 THEN ParseErr("io", "Io", Len(s))
      ELSE ParseOk([command |-> s[2], address |-> a.val,
                    port |-> FromBeBytes(SubSeq(s, 3 + a.used + 1, 3 + a.used + 2))],
                   3 + a.used + 3)

\* CommandRequest::parse
CommandRequestParse(s) ==
    IF Len(s) < 1 THEN ParseErr("io", "Io", Len(s))
    ELSE IF s[1] /= V5_VERSION THEN ParseErr("protocol", "General", 1)
    ELSE IF Len(s) < 2 THEN ParseErr("io", "Io", Len(s))
    ELSE IF s[2] \notin Command THEN ParseErr("protocol", "UnsupportedCommand", 2)
    ELSE IF Len(s) < 3 THEN ParseErr("io", "Io", Len(s))
    ELSE LET a == AddressParse(Drop(s, 3)) IN
      IF a.kind /= "ok" THEN ParseErr(a.kind, a.err, 3 + a.used)
      ELSE IF Len(s) < 3 + a.used + 2 THEN ParseErr("io", "Io", Len(s))
      ELSE ParseOk([command |-> s[2], address |-> a.val,
                    port |-> FromBeBytes(SubSeq(s, 3 + a.used + 1, 3 + a.used + 2))],
                   3 + a.used + 2)

\* ConnectResponse constructors
ConnectResponse(reply, address, port) ==
    [reply |-> reply, address |-> address, port |-> port]
\* mutant: the success reply carries 0.0.0.0:0 instead of the request's address
SuccessUnspecified(address, port) ==
    ConnectResponse(RESP_SUCCEEDED, UNSPECIFIED, 0)

Success(address, port) == ConnectResponse(RESP_SUCCEEDED, address, port)
GenealFailure == ConnectResponse(RESP_GENERAL_FAILURE, UNSPECIFIED, 0)
\* mutant: the reply carries 0.0.0.0:0 instead of the request's address
HostUnreachableUnspecified(address, port) ==
    ConnectResponse(RESP_HOST_UNREACHABLE, UNSPECIFIED, 0)
HostUnreachable(address, port) ==
    ConnectResponse(RESP_HOST_UNREACHABLE, address, port)
ConnectionRefused(address, port) ==
    ConnectResponse(RESP_CONNECTION_REFUSED, address, port)
UnsupportedAddressResp == ConnectResponse(RESP_ADDRESS_NOT_SUPPORTED, UNSPECIFIED, 0)
UnsupportedCommandResp == ConnectResponse(RESP_COMMAND_NOT_SUPPORTED, UNSPECIFIED, 0)

\* From<ConnectResponse> for Vec<u8>
ConnectResponseBytes(r) ==
    <<V5_VERSION, r.reply, 0>> \o AddressBytes(r.address) \o ToBeBytes(r.port)

\* mutant: an unsupported address type reported as a general failure
ErrorsIntoResponseGeneral(e) ==
    IF e = "UnsupportedCommand" THEN UnsupportedCommandResp
    ELSE GenealFailure

\* From<Errors> for ConnectResponse
ErrorsIntoResponse(e) ==
    IF e = "General" THEN GenealFailure
    ELSE IF e = "UnsupportedCommand" THEN UnsupportedCommandResp
    ELSE UnsupportedAddressResp

(***************************************************************************)
(* The cluster as the Kubernetes API shows it (the shapes resolver.rs      *)
(* reads).  A Service: namespace, name, has_spec, has_selector, selector   *)
(* (a BTreeMap: <<key, value>> pairs in key order), ports (port and        *)
(* target_port, an IntOrString or absent).  A Pod: namespace, name,        *)
(* has_hostname, hostname, labels, conditions (an absent status or an      *)
(* absent conditions list reads like the empty list) and containers, each  *)
(* a list of container ports (has_name, name, container_port).             *)
(***************************************************************************)
TargetInt(i) == [t |-> "Int", i |-> i, s |-> <<>>]
TargetString(s) == [t |-> "String", i |-> 0, s |-> s]
TargetNone == [t |-> "None", i |-> 0, s |-> <<>>]

\* resolver results: Ok((pod_name, namespace, port)) or Err(Errors::..);
\* api lists the cluster API calls made, in order
ResolveOk(pod_name, namespace, port, api) ==
    [ok |-> TRUE, pod_name |-> pod_name, namespace |-> namespace,
     port |-> port, err |-> None, reason |-> "", api |-> api]
ResolveErr(err, reason, api) ==
    [ok |-> FALSE, pod_name |-> <<>>, namespace |-> <<>>,
     port |-> 0, err |-> err, reason |-> reason, api |-> api]

\* selector_into_list_params: "k1=v1,k2=v2" in the map's key order
RECURSIVE SelectorIntoListParams(_)
SelectorIntoListParams(selectors) ==
    IF Len(selectors) = 0 THEN <<>>
    ELSE LET rest == SelectorIntoListParams(Front(selectors))
             kv == Last(selectors)
         IN (IF Len(rest) = 0 THEN <<>> ELSE rest \o <<COMMA>>)
            \o kv[1] \o <<EQUALS>> \o kv[2]

\* The API server's reading of a label query: every k=v requirement must be
\* a label of the pod; the empty query selects every pod.
LabelRequirements(query) ==
    IF Len(query) = 0 THEN {}
    ELSE LET reqs == Split(query, COMMA) IN
      {LET kv == Split(reqs[i], EQUALS) IN <<kv[1], Join(Tail(kv))>> :
          i \in 1..Len(reqs)}

\* Api<Pod>::list with a label selector, in the namespace
ListPods(cluster, namespace, query) ==
    SelectSeq(cluster.pods,
              LAMBDA p : p.namespace = namespace
                         /\ LabelRequirements(query) \subseteq p.labels)

\* Api<Service>::get_opt
ServiceGetOpt(cluster, namespace, name) ==
    SelectSeq(cluster.services,
              LAMBDA s : s.namespace = namespace /\ s.name = name)

\* Api<Pod>::get_opt
PodGetOpt(cluster, namespace, name) ==
    SelectSeq(cluster.pods,
              LAMBDA p : p.namespace = namespace /\ p.name = name)

\* Iterator::find as the index of the first element whose flag is TRUE,
\* 0 when there is none
RECURSIVE FindFrom(_, _)
FindFrom(flags, i) ==
    IF i > Len(flags) THEN 0
    ELSE IF flags[i] THEN i
    ELSE FindFrom(flags, i + 1)
Find(flags) == FindFrom(flags, 1)

\* conditions.iter().any(|c| c.type_ == "Ready" && c.status == "True")
IsReady(p) ==
    \E i \in 1..Len(p.conditions) :
        p.conditions[i].type = "Ready" /\ p.conditions[i].status = "True"

\* spec.hostname, or metadata.name when the hostname is absent
HostnameOrName(p) == IF p.has_hostname THEN p.hostname ELSE p.name

\* spec.containers.iter().flat_map(|c| c.ports...)
RECURSIVE FlatPorts(_)
FlatPorts(containers) ==
    IF Len(containers) = 0 THEN <<>>
    ELSE containers[1] \o FlatPorts(Tail(containers))

\* mutant: the requested port is returned without looking at the service
PodPortPassThrough(service, pod, port, namespace_api) ==
    ResolveOk(pod.name, service.namespace, port, namespace_api)

\* the target port of the service for the chosen pod (resolver.rs 193-221)
PodPort(service, pod, port, namespace_api) ==
    LET si == Find([i \in 1..Len(service.ports) |-> service.ports[i].port = port])
        service_port == IF si = 0 THEN TargetNone ELSE service.ports[si].target_port
    IN
    IF service_port.t = "String" THEN
      LET cps == FlatPorts(pod.containers)
          ci == Find([i \in 1..Len(cps) |->
                       cps[i].has_name /\ cps[i].name = service_port.s])
      IN IF ci /= 0 /\ cps[ci].container_port \in 0..U16_MAX
           THEN ResolveOk(pod.name, service.namespace, cps[ci].container_port,
                          namespace_api)
           ELSE ResolveErr("PortNotFound", "", namespace_api)
    ELSE IF service_port.t = "Int" THEN
      IF service_port.i \in 0..U16_MAX
        THEN ResolveOk(pod.name, service.namespace, service_port.i, namespace_api)
        ELSE ResolveErr("ServiceInvalid", "could not convert target port to u16",
                        namespace_api)
    ELSE ResolveOk(pod.name, service.namespace, port, namespace_api)

\* which of the two segment-count branches resolve_service takes; the second
\* test repeats the first, as in the source
ServiceNameForm(segments) ==
    IF Len(segments) = 2 THEN "service"
    ELSE IF Len(segments) = 2 THEN "pod_of_service"
    ELSE "unsupported"

\* PodResolver::resolve_service; fail is the index of the API call that
\* fails (0: none does)
ResolveService(cluster, segments, port, fail) ==
    LET form == ServiceNameForm(segments) IN
    IF form = "unsupported"
      THEN ResolveErr("UnsupportedAddress", "", <<>>)
    ELSE LET
      has_pod_hostname == form = "pod_of_service"
      pod_hostname == IF has_pod_hostname THEN segments[1] ELSE <<>>
      service_name == IF has_pod_hostname THEN segments[2] ELSE segments[1]
      namespace == IF has_pod_hostname THEN segments[3] ELSE segments[2]
      found == ServiceGetOpt(cluster, namespace, service_name)
    IN
    IF fail = 1 THEN ResolveErr("LookupFailed", "", <<"get_service">>)
    ELSE IF Len(found) = 0
      THEN ResolveErr("ServiceNotFound", "", <<"get_service">>)
    ELSE LET service == found[1] IN
    IF ~service.has_spec
      THEN ResolveErr("ServiceInvalid", "spec is not set", <<"get_service">>)
    ELSE IF ~service.has_selector
      THEN ResolveErr("ServiceInvalid", "spec.selectors is not set",
                      <<"get_service">>)
    ELSE LET
      api == <<"get_service", "list_pods">>
      pods == ListPods(cluster, namespace, SelectorIntoListParams(service.selector))
    IN
    IF fail = 2 THEN ResolveErr("LookupFailed", "", api)
    ELSE IF has_pod_hostname THEN
      LET hi == Find([i \in 1..Len(pods) |-> HostnameOrName(pods[i]) = pod_hostname]) IN
      IF hi /= 0 THEN ResolveOk(pods[hi].name, namespace, port, api)
      ELSE ResolveErr("NamedServicePodsNotFound", "", api)
    ELSE LET ri == Find([i \in 1..Len(pods) |-> IsReady(pods[i])]) IN
      IF ri /= 0 THEN PodPort(service, pods[ri], port, api)
      ELSE ResolveErr("ServiceNoReadyPods", "", api)

\* PodResolver::resolve_pod
ResolvePod(cluster, segments, port, fail) ==
    IF Len(segments) /= 2 THEN ResolveErr("UnsupportedAddress", "", <<>>)
    ELSE LET pod_name == segments[1]
             namespace == segments[2]
         IN
      IF fail = 1 THEN ResolveErr("LookupFailed", "", <<"get_pod">>)
      ELSE IF Len(PodGetOpt(cluster, namespace, pod_name)) = 0
        THEN ResolveErr("PodNotFound", "", <<"get_pod">>)
      ELSE ResolveOk(pod_name, namespace, port, <<"get_pod">>)

\* mutant: the cluster.local suffix is not stripped
ResolveNoStrip(cluster, address, port, fail) ==
    LET all == Split(address, DOT)
        segment == Last(all)
        segments == Front(all)
    IN
      IF segment = S_svc THEN ResolveService(cluster, segments, port, fail)
      ELSE IF segment = S_pod THEN ResolvePod(cluster, segments, port, fail)
      ELSE ResolveErr("UnsupportedAddress", "", <<>>)

\* PodResolver::resolve
Resolve(cluster, address, port, fail) ==
    LET all == Split(address, DOT)
        segment0 == Last(all)
        segments0 == Front(all)
        strip == segment0 = S_local /\ Len(segments0) > 0
                 /\ Last(segments0) = S_cluster
        segments1 == IF strip THEN Front(segments0) ELSE segments0
    IN
    IF strip /\ Len(segments1) = 0
      THEN ResolveErr("UnsupportedAddress", "", <<>>)
    ELSE LET segment == IF strip THEN Last(segments1) ELSE segment0
             segments == IF strip THEN Front(segments1) ELSE segments0
         IN
      IF segment = S_svc THEN ResolveService(cluster, segments, port, fail)
      ELSE IF segment = S_pod THEN ResolvePod(cluster, segments, port, fail)
      ELSE ResolveErr("UnsupportedAddress", "", <<>>)

(***************************************************************************)
(* handle_v4 as a function of the client's bytes: the frames written, the  *)
(* bytes consumed and the result (socks/mod.rs 36-88).                     *)
(***************************************************************************)
\* index of the first 0 byte of s at or after i, 0 when the stream ends first
RECURSIVE NullFrom(_, _)
NullFrom(s, i) ==
    IF i > Len(s) THEN 0
    ELSE IF s[i] = 0 THEN i
    ELSE NullFrom(s, i + 1)

V4Outcome(frames, used, res) == [frames |-> frames, used |-> used, res |-> res]

HandleV4Outcome(s) ==
    IF Len(s) < 8 THEN V4Outcome(<<>>, Len(s), "Io")
    ELSE LET method == s[2]
             dest_port == FromBeBytes(SubSeq(s, 3, 4))
             dest_addr == SubSeq(s, 5, 8)
             rejected == V4ToBuf(V4RejectedOrFailed(dest_port, dest_addr))
         IN
      IF method = METHOD_BIND THEN V4Outcome(<<rejected>>, 8, "Ok")
      ELSE IF method /= METHOD_CONNECT THEN V4Outcome(<<rejected>>, 8, "Ok")
      ELSE LET userid_end == NullFrom(s, 9) IN
        IF userid_end = 0 THEN V4Outcome(<<>>, Len(s), "Io")
        ELSE IF dest_addr = SOCKS4A_ADDRESS THEN
          LET addr_end == NullFrom(s, userid_end + 1) IN
          IF addr_end = 0 THEN V4Outcome(<<>>, Len(s), "Io")
          ELSE V4Outcome(<<V4ToBuf(V4Granted(dest_port, dest_addr))>>,
                         addr_end, "Ok")
        ELSE V4Outcome(<<rejected>>, userid_end, "Ok")

(***************************************************************************)
(* The reply handle_v5 sends for an error of PodResolver::forwarder        *)
(* (socks/mod.rs 140-171).                                                 *)
(***************************************************************************)
\* mutant: a service without ready pods reported as unreachable
ResolverErrorResponseNoReady(e, address, port) ==
    CASE e \in {"PodNotFound", "ServiceNotFound", "NamedServicePodsNotFound",
                "ServiceNoReadyPods"} -> HostUnreachable(address, port)
      [] e = "PortNotFound" -> ConnectionRefused(address, port)
      [] e = "UnsupportedAddress" -> UnsupportedAddressResp
      [] OTHER -> GenealFailure

\* mutant: an invalid service reported as refused
ResolverErrorResponseInvalidRefused(e, address, port) ==
    CASE e \in {"PodNotFound", "ServiceNotFound", "NamedServicePodsNotFound"} ->
             HostUnreachable(address, port)
      [] e \in {"PortNotFound", "ServiceNoReadyPods", "ServiceInvalid"} ->
             ConnectionRefused(address, port)
      [] e = "UnsupportedAddress" -> UnsupportedAddressResp
      [] OTHER -> GenealFailure

\* mutant: an unsupported address reported as a general failure
ResolverErrorResponseUnsupportedGeneral(e, address, port) ==
    CASE e \in {"PodNotFound", "ServiceNotFound", "NamedServicePodsNotFound"} ->
             HostUnreachable(address, port)
      [] e \in {"PortNotFound", "ServiceNoReadyPods"} ->
             ConnectionRefused(address, port)
      [] OTHER -> GenealFailure

ResolverErrorResponse(e, address, port) ==
    CASE e = "PodNotFound" -> HostUnreachable(address, port)
      [] e = "ServiceNotFound" -> HostUnreachable(address, port)
      [] e = "NamedServicePodsNotFound" -> HostUnreachable(address, port)
      [] e = "PortNotFound" -> ConnectionRefused(address, port)
      [] e = "UnsupportedAddress" -> UnsupportedAddressResp
      [] e = "ForwardFailed" -> GenealFailure
      [] e = "LookupFailed" -> GenealFailure
      [] e = "ServiceInvalid" -> GenealFailure
      [] e = "ServiceNoReadyPods" -> ConnectionRefused(address, port)

\* the frame handle_v5 sends for the outcome of forwarder(): the mapped
\* error reply, or success echoing the request (socks/mod.rs 135-179)
ForwarderReplyAlwaysSuccess(fe, address, port) == Success(address, port)
ForwarderReply(fe, address, port) ==
    IF fe /= None THEN ResolverErrorResponse(fe, address, port)
    ELSE Success(address, port)

\* the reply to a CONNECT whose address is an IP literal (socks/mod.rs 125-131)
IpLiteralResponse == UnsupportedCommandResp

\* mutant: a command other than CONNECT answered as a general failure
NotConnectResponseGeneral == GenealFailure

\* the reply to a command other than CONNECT (socks/mod.rs 116-122)
NotConnectResponse == UnsupportedCommandResp

(***************************************************************************)
(* The inputs: client byte streams and cluster states.                     *)
(***************************************************************************)
L_a == <<97>>
L_n == <<110>>
L_p == <<112>>
L_q == <<113>>
L_x == <<120>>
L_app == <<97, 112, 112>>
L_web == <<119, 101, 98>>
L_nope == <<110, 111, 112, 101>>

DnsNames ==
    { Join(<<L_a, L_n, S_svc>>),
      Join(<<L_a, L_n, S_svc, S_cluster, S_local>>),
      Join(<<L_p, L_a, L_n, S_svc>>),
      Join(<<L_x, L_n, S_svc>>),
      Join(<<L_p, L_n, S_pod>>),
      Join(<<L_p, L_n, S_pod, S_cluster, S_local>>),
      Join(<<L_x, L_n, S_pod>>),
      Join(<<L_x, L_a>>),
      Join(<<S_cluster, S_local>>),
      <<>>,
      <<255>>,
      <<195, 169>> }

Ports == {80, 8080}

Ip4Literal == <<192, 0, 2, 1>>
Ip6Literal == <<32, 1, 13, 184, 0, 0, 0, 0, 0, 0, 0, 0, 0, 0, 0, 1>>

\* what the client sends after the command request
Payload == [i \in 1..MaxPayload |-> 200 + i]
\* what the pod sends
PodBytes == [i \in 1..MaxPodBytes |-> 100 + i]

CommandFrame(ver, cmd, addr, port) == <<ver, cmd, 0>> \o addr \o ToBeBytes(port)
DnsField(name) == <<ATYPE_DNS, Len(name)>> \o name

CommandFrames ==
    { CommandFrame(5, CMD_CONNECT, DnsField(nm), pt) : nm \in DnsNames, pt \in Ports }
    \cup { CommandFrame(5, c, DnsField(Join(<<L_a, L_n, S_svc>>)), 80) :
             c \in {CMD_BIND, CMD_UDP_ASSOCIATE} }
    \cup { CommandFrame(5, c, <<ATYPE_IPV4>> \o Ip4Literal, 80) :
             c \in {CMD_CONNECT, CMD_BIND} }
    \cup { CommandFrame(5, CMD_CONNECT, <<ATYPE_IPV6>> \o Ip6Literal, 80),
           CommandFrame(5, 9, DnsField(Join(<<L_a, L_n, S_svc>>)), 80),
           CommandFrame(5, 9, <<7, 1>>, 80),
           CommandFrame(5, CMD_CONNECT, <<7, 1>>, 80),
           CommandFrame(4, CMD_CONNECT, DnsField(Join(<<L_a, L_n, S_svc>>)), 80),
           CommandFrame(4, 9, <<7, 1>>, 80) }

AuthFramesAccepted == { <<5, 1, 0>>, <<5, 3, 2, 128, 0>> }
AuthFramesRejected == { <<5, 0>>, <<5, 1, 2>>, <<5, 2, 1, 255>>, <<5, 1, 128>> }

V4Frames ==
    { <<4, m>> \o ToBeBytes(80) \o ip \o <<117, 0>> \o <<101, 46, 99, 0>> :
        m \in {METHOD_CONNECT, METHOD_BIND, 9},
        ip \in {SOCKS4A_ADDRESS, <<10, 0, 0, 1>>, <<0, 0, 0, 0>>} }
    \cup { <<4, METHOD_CONNECT>> \o ToBeBytes(8080) \o SOCKS4A_ADDRESS \o <<0, 0>> }

CompleteStreams ==
    { a \o c \o Payload : a \in AuthFramesAccepted, c \in CommandFrames }
    \cup { a \o Payload : a \in AuthFramesRejected }
    \cup { f \o Payload : f \in V4Frames }
    \cup { <<6, 1, 0>> }

\* the client may stop sending at any point
Streams == UNION { Prefixes(s) : s \in CompleteStreams }

Ready == <<[type |-> "PodScheduled", status |-> "True"],
           [type |-> "Ready", status |-> "True"]>>
NotReady == <<[type |-> "PodScheduled", status |-> "True"],
              [type |-> "Ready", status |-> "False"]>>

MkPod(name, has_hostname, hostname, conditions, web_port) ==
    [namespace |-> L_n, name |-> name, has_hostname |-> has_hostname,
     hostname |-> hostname, labels |-> {<<L_app, L_a>>},
     conditions |-> conditions,
     containers |-> << <<>>,
                       <<[has_name |-> FALSE, name |-> <<>>, container_port |-> 9090],
                         [has_name |-> TRUE, name |-> L_web,
                          container_port |-> web_port]>> >>]

MkService(has_spec, has_selector, ports) ==
    [namespace |-> L_n, name |-> L_a, has_spec |-> has_spec,
     has_selector |-> has_selector, selector |-> << <<L_app, L_a>> >>,
     ports |-> ports]

MkPort(port, target_port) == [port |-> port, target_port |-> target_port]

OtherPod ==
    [namespace |-> L_n, name |-> L_x, has_hostname |-> FALSE, hostname |-> <<>>,
     labels |-> {}, conditions |-> Ready, containers |-> <<>>]

Clusters ==
    { [services |-> <<MkService(TRUE, TRUE,
                        <<MkPort(80, TargetInt(8080)),
                          MkPort(8080, TargetString(L_web)),
                          MkPort(80, TargetInt(9))>>)>>,
       pods |-> <<OtherPod, MkPod(L_q, TRUE, L_p, NotReady, 8080),
                  MkPod(L_p, FALSE, <<>>, Ready, 8080)>>],
      [services |-> <<MkService(TRUE, TRUE, <<MkPort(80, TargetInt(8080))>>)>>,
       pods |-> <<MkPod(L_p, FALSE, <<>>, NotReady, 8080)>>],
      [services |-> <<MkService(TRUE, FALSE, <<>>)>>,
       pods |-> <<MkPod(L_p, FALSE, <<>>, Ready, 8080)>>],
      [services |-> <<MkService(FALSE, FALSE, <<>>)>>,
       pods |-> <<MkPod(L_p, FALSE, <<>>, Ready, 8080)>>],
      [services |-> <<>>, pods |-> <<>>],
      [services |-> <<MkService(TRUE, TRUE,
                        <<MkPort(80, TargetInt(70000)),
                          MkPort(8080, TargetString(L_nope))>>)>>,
       pods |-> <<MkPod(L_p, FALSE, <<>>, Ready, 8080)>>],
      [services |-> <<MkService(TRUE, TRUE,
                        <<MkPort(80, TargetInt(-1)),
                          MkPort(8080, TargetString(L_web))>>)>>,
       pods |-> <<MkPod(L_p, FALSE, <<>>, Ready, 70000)>>],
      [services |-> <<MkService(TRUE, TRUE, <<MkPort(8080, TargetNone)>>)>>,
       pods |-> <<MkPod(L_p, FALSE, <<>>, Ready, 8080)>>] }

(***************************************************************************)
(* The state of one connection task.                                       *)
(***************************************************************************)
VARIABLES
    input,      \* the bytes the client sends before it closes its side
    cluster,    \* the cluster state the API calls read
    pc,         \* the handler's position
    pos,        \* bytes of input the handler has consumed
    sent,       \* the frames handed to write_all on the client stream
    auth,       \* the result of AuthRequest::parse
    cmd,        \* the result of CommandRequest::parse
    resolved,   \* the result of PodResolver::resolve
    resolves,   \* calls of PodResolver::resolve
    sessions,   \* port-forward sessions opened (portforward() returned Ok)
    forwarder,  \* PodResolver.forwarder: "None" or "Some"
    stream,     \* the pod stream: "none", "held" or "dropped"
    joins,      \* Portforwarder::join calls awaited
    fwd_err,    \* the Errors value forwarder() returned, or "None"
    res,        \* the result of handle_v4 / handle_v5, "pending" before
    ret,        \* the result of handle, "pending" before
    join_res,   \* the result of resolver.join(), "pending" before
    pod_out,    \* the bytes the pod will send through the stream
    pod_pos,    \* bytes of pod_out the relay has read
    to_pod,     \* bytes the relay wrote to the pod stream
    to_client,  \* bytes the relay wrote to the client
    c2p,        \* client-to-pod direction: "running" or "done" (shut down)
    p2c,        \* pod-to-client direction: "running" or "done" (shut down)
    acc_pc,     \* main: "accepting", "ended" (try_for_each returned), "exited"
    loop_result,    \* what try_for_each returned, "pending" before
    signal,     \* the ctrl_c() future has completed
    tasks,      \* the connection tasks spawned, in order
    accept_errors,  \* the listeners whose accept returned an error
    codec_pc,   \* the codec round trip: "idle", "value", "encoded", "decoded"
    codec_x,    \* a ConnectResponse value
    codec_wire, \* its bytes, Vec<u8>::from(codec_x)
    codec_back  \* what parsing codec_wire gives

vars == <<input, cluster, pc, pos, sent, auth, cmd, resolved, resolves,
          sessions, forwarder, stream, joins, fwd_err, res, ret, join_res,
          pod_out, pod_pos, to_pod, to_client, c2p, p2c,
          acc_pc, loop_result, signal, tasks, accept_errors,
          codec_pc, codec_x, codec_wire, codec_back>>

codec_vars == <<codec_pc, codec_x, codec_wire, codec_back>>
acceptor_vars == <<acc_pc, loop_result, signal, tasks, accept_errors>>
conn_vars == <<input, cluster>>
parse_vars == <<auth, cmd>>
resolver_vars == <<resolved, resolves, sessions, forwarder, stream, fwd_err>>
relay_vars == <<pod_out, pod_pos, to_pod, to_client, c2p, p2c>>

NoParse == [kind |-> "none", val |-> None, err |-> None, used |-> 0]
NoResolve == ResolveErr("NotCalled", "", <<>>)

Rest == Drop(input, pos)

\* main, lines 27-32: both listeners bound, the accept loop about to start
AcceptorInit ==
    /\ acc_pc = "accepting"
    /\ loop_result = "pending"
    /\ signal = FALSE
    /\ tasks = <<>>
    /\ accept_errors = {}

\* no ConnectResponse value under the codec yet
CodecInit ==
    /\ codec_pc = "idle"
    /\ codec_x = ConnectResponse(RESP_SUCCEEDED, UNSPECIFIED, 0)
    /\ codec_wire = <<>>
    /\ codec_back = NoParse

Init ==
    /\ input \in Streams
    /\ cluster \in Clusters
    /\ pc = "peek"
    /\ pos = 0
    /\ sent = <<>>
    /\ auth = NoParse
    /\ cmd = NoParse
    /\ resolved = NoResolve
    /\ resolves = 0
    /\ sessions = 0
    /\ forwarder = "None"
    /\ stream = "none"
    /\ joins = 0
    /\ fwd_err = None
    /\ res = "pending"
    /\ ret = "pending"
    /\ join_res = "pending"
    /\ pod_out = <<>>
    /\ pod_pos = 0
    /\ to_pod = <<>>
    /\ to_client = <<>>
    /\ c2p = "running"
    /\ p2c = "running"
    /\ AcceptorInit
    /\ CodecInit

\* client.send(frame): write_all either writes the frame or fails; the
\* handler returns the write error with `?`
Send(frame, next_pc, next_res) ==
    /\ sent' = Append(sent, frame)
    /\ \E write_failed \in BOOLEAN :
         IF write_failed
           THEN pc' = "join" /\ res' = "Io"
           ELSE pc' = next_pc /\ res' = next_res

\* mutant: the version byte is read, not peeked
PeekConsumes ==
    /\ pc = "peek"
    /\ LET ver == IF Len(input) = 0 THEN 0 ELSE input[1] IN
         \/ /\ ver = V4_VERSION
            /\ pc' = "v4"
            /\ UNCHANGED <<res, ret>>
         \/ /\ ver = V5_VERSION
            /\ pc' = "v5_auth"
            /\ UNCHANGED <<res, ret>>
         \/ /\ ver \notin {V4_VERSION, V5_VERSION}
            /\ pc' = "join"
            /\ res' = "UnsupportedVersion"
            /\ UNCHANGED ret
         \/ /\ pc' = "done"
            /\ ret' = "Io"
            /\ UNCHANGED res
    /\ pos' = IF Len(input) = 0 THEN 0 ELSE 1
    /\ UNCHANGED <<join_res, codec_vars, acceptor_vars, conn_vars, sent, parse_vars,
                   resolver_vars, joins, relay_vars>>

\* handle, lines 15-28: peek the version byte without consuming it.  At end
\* of stream peek reads nothing and the buffer keeps its 0.
Peek ==
    /\ pc = "peek"
    /\ LET ver == IF Len(input) = 0 THEN 0 ELSE input[1] IN
         \/ /\ ver = V4_VERSION
            /\ pc' = "v4"
            /\ UNCHANGED <<res, ret>>
         \/ /\ ver = V5_VERSION
            /\ pc' = "v5_auth"
            /\ UNCHANGED <<res, ret>>
         \/ /\ ver \notin {V4_VERSION, V5_VERSION}
            /\ pc' = "join"
            /\ res' = "UnsupportedVersion"
            /\ UNCHANGED ret
         \/ \* peek itself fails: handle returns before the resolver exists
            /\ pc' = "done"
            /\ ret' = "Io"
            /\ UNCHANGED res
    /\ UNCHANGED <<join_res, codec_vars, acceptor_vars, conn_vars, pos, sent, parse_vars, resolver_vars, joins, relay_vars>>

\* handle_v4
HandleV4 ==
    /\ pc = "v4"
    /\ LET o == HandleV4Outcome(input) IN
         /\ pos' = o.used
         /\ IF Len(o.frames) = 0
              THEN /\ sent' = sent
                   /\ pc' = "join"
                   /\ res' = o.res
              ELSE Send(o.frames[1], "join", o.res)
    /\ UNCHANGED <<join_res, codec_vars, acceptor_vars, conn_vars, parse_vars, resolver_vars, joins, ret, relay_vars>>

\* handle_v5, lines 94-101
V5Auth ==
    /\ pc = "v5_auth"
    /\ LET r == AuthRequestParse(Rest) IN
         /\ auth' = r
         /\ pos' = pos + r.used
         /\ IF r.kind /= "ok"
              THEN /\ pc' = "join"
                   /\ res' = r.err
                   /\ sent' = sent
              ELSE IF ~AuthContains(r.val, AUTH_NOT_REQUIRED)
                THEN Send(AuthResponseBytes(AUTH_NONE), "join", "Ok")
                ELSE Send(AuthResponseBytes(AUTH_NOT_REQUIRED), "v5_command", "pending")
    /\ UNCHANGED <<join_res, codec_vars, acceptor_vars, conn_vars, cmd, resolver_vars, joins, ret, relay_vars>>

\* handle_v5, lines 103-133
V5Command ==
    /\ pc = "v5_command"
    /\ LET r == CommandRequestParse(Rest) IN
         /\ cmd' = r
         /\ pos' = pos + r.used
         /\ IF r.kind = "protocol"
              THEN Send(ConnectResponseBytes(ErrorsIntoResponse(r.err)), "join", "Ok")
            ELSE IF r.kind /= "ok"
              THEN /\ pc' = "join"
                   /\ res' = r.err
                   /\ sent' = sent
            ELSE IF r.val.command /= CMD_CONNECT
              THEN Send(ConnectResponseBytes(NotConnectResponse), "join", "Ok")
            ELSE IF r.val.address.t /= "Dns"
              THEN Send(ConnectResponseBytes(IpLiteralResponse), "join", "Ok")
            ELSE /\ pc' = "v5_resolve"
                 /\ res' = res
                 /\ sent' = sent
    /\ UNCHANGED <<join_res, codec_vars, acceptor_vars, conn_vars, auth, resolver_vars, joins, ret, relay_vars>>

\* PodResolver::forwarder, line 62: resolve; an API call may fail
V5Resolve ==
    /\ pc = "v5_resolve"
    /\ \E fail \in 0..2 :
         LET r == Resolve(cluster, cmd.val.address.b, cmd.val.port, fail) IN
           /\ fail <= Len(r.api)
           /\ resolved' = r
           /\ resolves' = resolves + 1
           /\ IF r.ok
                THEN pc' = "v5_portforward" /\ fwd_err' = fwd_err
                ELSE pc' = "v5_reply" /\ fwd_err' = r.err
    /\ UNCHANGED <<join_res, codec_vars, acceptor_vars, conn_vars, pos, sent, parse_vars, sessions, forwarder, stream,
                   joins, res, ret, relay_vars>>

\* PodResolver::forwarder, lines 64-78: open the port-forward, take the
\* stream of the port, keep the session in self.forwarder
V5PortForward ==
    /\ pc = "v5_portforward"
    /\ \/ \* portforward() fails
          /\ fwd_err' = "ForwardFailed"
          /\ pc' = "v5_reply"
          /\ UNCHANGED <<sessions, forwarder, stream, pod_out>>
       \/ \* take_stream() gives None: `?` returns, the session is dropped
          /\ sessions' = sessions + 1
          /\ fwd_err' = "ForwardFailed"
          /\ pc' = "v5_reply"
          /\ UNCHANGED <<forwarder, stream, pod_out>>
       \/ /\ sessions' = sessions + 1
          /\ forwarder' = "Some"
          /\ stream' = "held"
          /\ pod_out' \in Prefixes(PodBytes)
          /\ pc' = "v5_reply"
          /\ UNCHANGED fwd_err
    /\ UNCHANGED <<join_res, codec_vars, acceptor_vars, conn_vars, pos, sent, parse_vars, resolved, resolves, joins,
                   res, ret, pod_pos, to_pod, to_client, c2p, p2c>>

\* handle_v5, lines 135-179: the reply to the outcome of forwarder()
V5Reply ==
    /\ pc = "v5_reply"
    /\ LET frame == ConnectResponseBytes(
                       ForwarderReply(fwd_err, cmd.val.address, cmd.val.port))
       IN IF fwd_err /= None
            THEN Send(frame, "join", "Ok")
            ELSE Send(frame, "relay", "pending")
    /\ stream' = IF pc' = "join" /\ stream = "held" THEN "dropped" ELSE stream
    /\ UNCHANGED <<join_res, codec_vars, acceptor_vars, conn_vars, pos, parse_vars, resolved, resolves, sessions,
                   forwarder, fwd_err, joins, ret, relay_vars>>

\* copy_bidirectional, client to pod: one byte read from the client is
\* written to the pod stream
RelayClientToPod ==
    /\ pc = "relay" /\ c2p = "running"
    /\ pos < Len(input)
    /\ to_pod' = Append(to_pod, input[pos + 1])
    /\ pos' = pos + 1
    /\ UNCHANGED <<join_res, codec_vars, acceptor_vars, conn_vars, pc, sent, parse_vars, resolver_vars, joins, res, ret,
                   pod_out, pod_pos, to_client, c2p, p2c>>

\* mutant: the client's end of stream shuts both directions down
RelayClientEofClosesBoth ==
    /\ pc = "relay" /\ c2p = "running"
    /\ pos = Len(input)
    /\ c2p' = "done"
    /\ p2c' = "done"
    /\ UNCHANGED <<join_res, codec_vars, acceptor_vars, conn_vars, pc, pos, sent, parse_vars, resolver_vars, joins, res,
                   ret, pod_out, pod_pos, to_pod, to_client>>

\* the client's side is at end of stream: the pod stream's write half is
\* shut down
RelayClientEof ==
    /\ pc = "relay" /\ c2p = "running"
    /\ pos = Len(input)
    /\ c2p' = "done"
    /\ UNCHANGED <<join_res, codec_vars, acceptor_vars, conn_vars, pc, pos, sent, parse_vars, resolver_vars, joins, res,
                   ret, pod_out, pod_pos, to_pod, to_client, p2c>>

\* copy_bidirectional, pod to client
RelayPodToClient ==
    /\ pc = "relay" /\ p2c = "running"
    /\ pod_pos < Len(pod_out)
    /\ to_client' = Append(to_client, pod_out[pod_pos + 1])
    /\ pod_pos' = pod_pos + 1
    /\ UNCHANGED <<join_res, codec_vars, acceptor_vars, conn_vars, pc, pos, sent, parse_vars, resolver_vars, joins, res,
                   ret, pod_out, to_pod, c2p, p2c>>

RelayPodEof ==
    /\ pc = "relay" /\ p2c = "running"
    /\ pod_pos = Len(pod_out)
    /\ p2c' = "done"
    /\ UNCHANGED <<join_res, codec_vars, acceptor_vars, conn_vars, pc, pos, sent, parse_vars, resolver_vars, joins, res,
                   ret, pod_out, pod_pos, to_pod, to_client, c2p>>

\* mutant: a relay error is reported to the client with a failure reply
RelayErrorReplies ==
    /\ pc = "relay"
    /\ c2p = "running" \/ p2c = "running"
    /\ pc' = "join"
    /\ res' = "Io"
    /\ stream' = "dropped"
    /\ sent' = Append(sent, ConnectResponseBytes(GenealFailure))
    /\ UNCHANGED <<join_res, codec_vars, acceptor_vars, conn_vars, pos, parse_vars, resolved,
                   resolves, sessions, forwarder, fwd_err, joins, ret, relay_vars>>

\* a read or write of either direction fails: copy_bidirectional returns the
\* error and `?` returns it, dropping pod_stream
RelayError ==
    /\ pc = "relay"
    /\ c2p = "running" \/ p2c = "running"
    /\ pc' = "join"
    /\ res' = "Io"
    /\ stream' = "dropped"
    /\ UNCHANGED <<join_res, codec_vars, acceptor_vars, conn_vars, pos, sent, parse_vars, resolved, resolves, sessions,
                   forwarder, fwd_err, joins, ret, relay_vars>>

\* both directions are shut down: copy_bidirectional returns Ok, lines 181-184
RelayDone ==
    /\ pc = "relay"
    /\ c2p = "done" /\ p2c = "done"
    /\ pc' = "join"
    /\ res' = "Ok"
    /\ stream' = "dropped"
    /\ UNCHANGED <<join_res, codec_vars, acceptor_vars, conn_vars, pos, sent, parse_vars, resolved, resolves, sessions,
                   forwarder, fwd_err, joins, ret, relay_vars>>

\* mutant: the handler's result is looked at before the join's
JoinStepResFirst ==
    /\ pc = "join"
    /\ pc' = "done"
    /\ IF forwarder = "Some"
         THEN /\ joins' = joins + 1
              /\ forwarder' = "None"
              /\ \E join_failed \in BOOLEAN :
                   /\ join_res' = IF join_failed THEN "JoinError" ELSE "Ok"
                   /\ ret' = IF res /= "Ok" THEN res
                             ELSE IF join_failed THEN "JoinError" ELSE res
         ELSE /\ joins' = joins
              /\ forwarder' = forwarder
              /\ join_res' = "Ok"
              /\ ret' = res
    /\ UNCHANGED <<codec_vars, acceptor_vars, conn_vars, pos, sent, parse_vars,
                   resolved, resolves, sessions, stream, fwd_err, res, relay_vars>>

\* handle, lines 30-33: resolver.join().await?; res?; Ok(())
JoinStep ==
    /\ pc = "join"
    /\ pc' = "done"
    /\ IF forwarder = "Some"
         THEN /\ joins' = joins + 1
              /\ forwarder' = "None"
              /\ \E join_failed \in BOOLEAN :
                   /\ join_res' = IF join_failed THEN "JoinError" ELSE "Ok"
                   /\ ret' = IF join_failed THEN "JoinError" ELSE res
         ELSE /\ joins' = joins
              /\ forwarder' = forwarder
              /\ join_res' = "Ok"
              /\ ret' = res
    /\ UNCHANGED <<codec_vars, acceptor_vars, conn_vars, pos, sent, parse_vars, resolved, resolves, sessions,
                   stream, fwd_err, res, relay_vars>>

Next ==
    \/ Peek
    \/ HandleV4
    \/ V5Auth
    \/ V5Command
    \/ V5Resolve
    \/ V5PortForward
    \/ V5Reply
    \/ RelayClientToPod
    \/ RelayClientEof
    \/ RelayPodToClient
    \/ RelayPodEof
    \/ RelayError
    \/ RelayDone
    \/ JoinStep

Spec == Init /\ [][Next]_vars

\* the join of a session whose stream is released completes, and a call of
\* PodResolver::join without a session returns at once (resolver.rs 81-87)
SpecLive == Init /\ [][Next]_vars /\ WF_vars(JoinStep)

(***************************************************************************)
(* The acceptor (main.rs 27-61): two listeners merged into one stream that *)
(* ends at ctrl_c, and try_for_each spawning one task per connection.      *)
(***************************************************************************)
Families == {"v4", "v6"}

handler_vars == <<input, cluster, pc, pos, sent, auth, cmd, resolved, resolves,
                  sessions, forwarder, stream, joins, fwd_err, res, ret,
                  join_res, pod_out, pod_pos, to_pod, to_client, c2p, p2c>>

\* the merged stream yields a connection of listener f (lines 35-56):
\* peer_addr()? returns its error from the closure, which ends
\* try_for_each; otherwise the handler task is spawned and left detached
Accept(f) ==
    /\ acc_pc = "accepting"
    /\ ~signal
    /\ Len(tasks) < MaxConns
    /\ \E peer_addr_failed \in BOOLEAN :
         IF peer_addr_failed
           THEN /\ acc_pc' = "ended"
                /\ loop_result' = "Err"
                /\ tasks' = tasks
           ELSE /\ tasks' = Append(tasks, [family |-> f, state |-> "running",
                                           at |-> "peek"])
                /\ UNCHANGED <<acc_pc, loop_result>>
    /\ UNCHANGED <<signal, accept_errors, handler_vars, codec_vars>>

\* the accept of listener f fails: TcpListenerStream yields Err, merge
\* passes it on and try_for_each returns it (lines 32-35, 58)
AcceptError(f) ==
    /\ acc_pc = "accepting"
    /\ ~signal
    /\ accept_errors' = accept_errors \cup {f}
    /\ acc_pc' = "ended"
    /\ loop_result' = "Err"
    /\ UNCHANGED <<signal, tasks, handler_vars, codec_vars>>

\* the interrupt arrives: the ctrl_c() future of take_until is ready
Signal ==
    /\ acc_pc = "accepting"
    /\ ~signal
    /\ signal' = TRUE
    /\ UNCHANGED <<acc_pc, loop_result, tasks, accept_errors, handler_vars, codec_vars>>

\* take_until ends the stream once its future is ready; try_for_each
\* returns Ok(()) at the end of the stream (lines 34-35, 58)
LoopEnd ==
    /\ acc_pc = "accepting"
    /\ signal
    /\ acc_pc' = "ended"
    /\ loop_result' = "Ok"
    /\ UNCHANGED <<signal, tasks, accept_errors, handler_vars, codec_vars>>

\* where a task is in socks::handle: the peek, the handshake (auth and
\* command requests), the resolver's API calls, the relay, the join
NextAt(at) ==
    CASE at = "peek" -> "handshake"
      [] at = "handshake" -> "resolve"
      [] at = "resolve" -> "relay"
      [] at = "relay" -> "join"

\* mutant: the tasks share one cluster client that serves one resolve at a time
TaskStepSerialized(i) ==
    /\ acc_pc /= "exited"
    /\ tasks[i].state = "running"
    /\ tasks[i].at /= "join"
    /\ \A j \in 1..Len(tasks) :
           j /= i => ~(tasks[j].state = "running" /\ tasks[j].at = "resolve")
    /\ tasks' = [tasks EXCEPT ![i].at = NextAt(tasks[i].at)]
    /\ UNCHANGED <<acc_pc, loop_result, signal, accept_errors, handler_vars, codec_vars>>

\* task i gets what it was waiting for and moves on (lines 46-47); it owns
\* its client_conn and its clone of the cluster client
TaskStep(i) ==
    /\ acc_pc /= "exited"
    /\ tasks[i].state = "running"
    /\ tasks[i].at /= "join"
    /\ tasks' = [tasks EXCEPT ![i].at = NextAt(tasks[i].at)]
    /\ UNCHANGED <<acc_pc, loop_result, signal, accept_errors, handler_vars, codec_vars>>

\* a spawned task runs socks::handle to its end (lines 46-53)
TaskFinish(i) ==
    /\ acc_pc /= "exited"
    /\ tasks[i].state = "running"
    /\ tasks' = [tasks EXCEPT ![i].state = "finished", ![i].at = "end"]
    /\ UNCHANGED <<acc_pc, loop_result, signal, accept_errors, handler_vars, codec_vars>>

\* main returns the loop's result (lines 58-61); the runtime built by
\* #[tokio::main] (line 12) is dropped with it and drops the tasks that are
\* still running
MainReturn ==
    /\ acc_pc = "ended"
    /\ acc_pc' = "exited"
    /\ tasks' = [i \in 1..Len(tasks) |->
                   IF tasks[i].state = "running"
                     THEN [tasks[i] EXCEPT !.state = "cancelled"]
                     ELSE tasks[i]]
    /\ UNCHANGED <<loop_result, signal, accept_errors, handler_vars, codec_vars>>

AcceptorNext ==
    \/ \E f \in Families : Accept(f)
    \/ \E f \in Families : AcceptError(f)
    \/ Signal
    \/ LoopEnd
    \/ \E i \in 1..Len(tasks) : TaskStep(i)
    \/ \E i \in 1..Len(tasks) : TaskFinish(i)
    \/ MainReturn

\* the program with no connection task followed through its handler
MainInit ==
    /\ Init
    /\ input = <<>>
    /\ cluster = [services |-> <<>>, pods |-> <<>>]

SpecAcceptor == MainInit /\ [][AcceptorNext]_vars

(***************************************************************************)
(* AuthRequest::parse on its own (v5.rs 82-108), on streams that need not  *)
(* start with the version byte 5.                                          *)
(***************************************************************************)
AuthBytes == {0, 1, 2, 3, 5, 255}
AuthStreams == UNION { [1..n -> AuthBytes] : n \in 0..MaxAuthLen }

\* a client stream is given to the parser
AuthPick ==
    /\ pc = "peek" /\ auth.kind = "none" /\ input = <<>>
    /\ input' \in AuthStreams \ {<<>>}
    /\ UNCHANGED <<cluster, pc, pos, sent, parse_vars, resolver_vars, joins, res,
                   ret, join_res, relay_vars, acceptor_vars, codec_vars>>

AuthParse ==
    /\ pc = "peek" /\ auth.kind = "none"
    /\ auth' = AuthRequestParse(input)
    /\ pos' = auth'.used
    /\ UNCHANGED <<conn_vars, pc, sent, cmd, resolver_vars, joins, res, ret,
                   join_res, relay_vars, acceptor_vars, codec_vars>>

AuthNext == AuthPick \/ AuthParse

SpecAuth == MainInit /\ [][AuthNext]_vars

(***************************************************************************)
(* The ConnectResponse codec on its own (v5.rs 140-148, 191-236): a value  *)
(* is encoded and the bytes are parsed back by the address and port rules  *)
(* of CommandRequest::parse.                                               *)
(***************************************************************************)
\* a name of n bytes
NameOfLen(n) == [i \in 1..n |-> 97]
NameLens == {0, 1, 11, 255, MaxNameLen}

CodecAddresses ==
    { UNSPECIFIED, AddrV4(Ip4Literal), AddrV6(Ip6Literal) }
    \cup { AddrDns(NameOfLen(n)) : n \in NameLens }
CodecPorts == {0, 80, 255, 256, 8080, U16_MAX}
CodecReplies ==
    { RESP_SUCCEEDED, RESP_GENERAL_FAILURE, RESP_HOST_UNREACHABLE,
      RESP_CONNECTION_REFUSED, RESP_COMMAND_NOT_SUPPORTED,
      RESP_ADDRESS_NOT_SUPPORTED }

\* the address and port rules of CommandRequest::parse applied to a
\* response frame: version, reply, reserved byte, address, port
ResponseParse(s) ==
    IF Len(s) < 3 THEN ParseErr("io", "Io", Len(s))
    ELSE LET a == AddressParse(Drop(s, 3)) IN
      IF a.kind /= "ok" THEN ParseErr(a.kind, a.err, 3 + a.used)
      ELSE IF Len(s) < 3 + a.used + 2 THEN ParseErr("io", "Io", Len(s))
      ELSE ParseOk([reply |-> s[2], address |-> a.val,
                    port |-> FromBeBytes(SubSeq(s, 3 + a.used + 1, 3 + a.used + 2))],
                   3 + a.used + 2)

CodecPick ==
    /\ codec_pc = "idle"
    /\ codec_pc' = "value"
    /\ \E reply \in CodecReplies, address \in CodecAddresses, port \in CodecPorts :
         codec_x' = ConnectResponse(reply, address, port)
    /\ UNCHANGED <<codec_wire, codec_back, acceptor_vars, handler_vars>>

CodecEncode ==
    /\ codec_pc = "value"
    /\ codec_pc' = "encoded"
    /\ codec_wire' = ConnectResponseBytes(codec_x)
    /\ UNCHANGED <<codec_x, codec_back, acceptor_vars, handler_vars>>

CodecDecode ==
    /\ codec_pc = "encoded"
    /\ codec_pc' = "decoded"
    /\ codec_back' = ResponseParse(codec_wire)
    /\ UNCHANGED <<codec_x, codec_wire, acceptor_vars, handler_vars>>

CodecNext == CodecPick \/ CodecEncode \/ CodecDecode

SpecCodec == MainInit /\ [][CodecNext]_vars

(***************************************************************************)
(* Properties.                                                             *)
(*                                                                         *)
(* The properties read the client's raw bytes (input) and the frames       *)
(* written (sent), so that they do not repeat the codec's own definitions. *)
(***************************************************************************)
Finished == pc \in {"join", "done"}
NothingRelayed ==
    to_pod = <<>> /\ to_client = <<>> /\ c2p = "running" /\ p2c = "running"
NoBackend == resolves = 0 /\ sessions = 0 /\ stream = "none"

\* a V5 connect response with the address 0.0.0.0 and the port 0
FailureFrame(reply) == <<5, reply, 0, 1, 0, 0, 0, 0, 0, 0>>

\* the client's auth request is complete in the input
AuthOffered ==
    Len(input) >= 2 /\ input[1] = 5 /\ Len(input) >= 2 + input[2]
OffersNotRequired == \E i \in 3..(2 + input[2]) : input[i] = 0

\* handle_v5 has parsed the auth request and got past it
PastAuth ==
    \/ pc \in {"v5_command", "v5_resolve", "v5_portforward", "v5_reply", "relay"}
    \/ cmd.kind /= "none"

\* C1: a method list without NOT_REQUIRED (the empty list included) is
\* answered with exactly 05 FF and the handler returns: no command request
\* is read, the resolver is not called, no port-forward is opened.  05 00 is
\* written, and the command phase entered, only if NOT_REQUIRED was offered.
C1_AuthGate ==
    /\ (auth.kind = "ok" /\ AuthOffered /\ ~OffersNotRequired) =>
          /\ sent = << <<5, 255>> >>
          /\ Finished
          /\ cmd = NoParse /\ pos = 2 + input[2]
          /\ NoBackend /\ NothingRelayed
    /\ PastAuth => AuthOffered /\ OffersNotRequired
    /\ (Len(sent) >= 1 /\ sent[1] = <<5, 0>>) => AuthOffered /\ OffersNotRequired

C1_Witness ==
    /\ pc = "done" /\ ret = "Ok"
    /\ AuthOffered /\ input[2] = 0
    /\ sent = << <<5, 255>> >>

\* a frame of the client could not be parsed
AuthParseFailed == auth.kind \in {"io", "protocol", "string"}
CommandParseFailed == cmd.kind \in {"io", "protocol", "string"}
V4Ran == Len(input) >= 1 /\ input[1] = 4 /\ res /= "pending"
V4ParseFailed == V4Ran /\ sent = <<>>

\* C2: after any parse failure the handler writes a complete SOCKS response
\* before the connection is closed (first byte 05 for v5, 00 for v4).
C2_ParseFailureAnswered ==
    pc = "done" =>
      /\ AuthParseFailed => Len(sent) = 1 /\ Len(sent[1]) >= 2 /\ sent[1][1] = 5
      /\ CommandParseFailed =>
            Len(sent) = 2 /\ Len(sent[2]) >= 10 /\ sent[2][1] = 5
      /\ V4ParseFailed => Len(sent) = 1 /\ Len(sent[1]) = 8 /\ sent[1][1] = 0

\* C3: every port-forward session opened for the connection is joined
\* exactly once before the task exits.
C3_JoinedExactlyOnce ==
    /\ joins <= sessions
    /\ pc = "done" => joins = sessions

\* the SUCCESS reply is among the frames written
SuccessSent == Len(sent) >= 2 /\ sent[2][1] = 5 /\ sent[2][2] = 0
AuthReplySent == Len(sent) >= 1 /\ sent[1] = <<5, 0>>

\* C4: auth reply, command parse, resolve, port-forward open, SUCCESS reply
\* and relay happen in this order: SUCCESS is written only after the
\* resolver returned a target and the stream was obtained, and nothing is
\* relayed in either direction before SUCCESS was written.
C4_Ordering ==
    /\ cmd.kind /= "none" => AuthReplySent
    /\ resolves > 0 => cmd.kind = "ok" /\ AuthReplySent
    /\ sessions > 0 => resolves = 1 /\ resolved.ok
    /\ stream /= "none" => sessions = 1
    /\ SuccessSent => resolved.ok /\ stream /= "none" /\ fwd_err = None
    /\ ~NothingRelayed => SuccessSent
    /\ pc = "relay" => SuccessSent /\ stream = "held"

C4_Witness ==
    /\ pc = "done"
    /\ SuccessSent
    /\ Len(to_pod) > 0 /\ Len(to_client) > 0

\* the command request of a v5 connection starts after the auth request
CmdAt(i) == input[auth.used + i]
CmdLen == Len(input) - auth.used

\* C5: a CONNECT to an IP literal is answered with ADDRESS_NOT_SUPPORTED and
\* 0.0.0.0:0, and the resolver is not called.
C5_IpLiteralRejected ==
    (cmd.kind = "ok" /\ CmdAt(2) = 1 /\ CmdAt(4) \in {1, 4}) =>
        /\ sent = << <<5, 0>>, FailureFrame(8) >>
        /\ Finished /\ NoBackend /\ NothingRelayed

\* the table of section 4.2
TableReply(e) ==
    CASE e \in {"PodNotFound", "ServiceNotFound", "NamedServicePodsNotFound"} -> 4
      [] e \in {"ServiceNoReadyPods", "PortNotFound"} -> 5
      [] e = "UnsupportedAddress" -> 8
      [] e \in {"ServiceInvalid", "ForwardFailed", "LookupFailed"} -> 1

\* C6: every error of PodResolver::forwarder is answered with exactly one
\* connect response whose reply byte follows the table, and the handler
\* returns without relaying.
C6_ResolverErrorMapped ==
    fwd_err /= None =>
        /\ pc \in {"v5_reply", "join", "done"}
        /\ NothingRelayed /\ stream = "none"
        /\ pc = "v5_reply" => sent = << <<5, 0>> >>
        /\ Finished =>
              /\ Len(sent) = 2 /\ sent[1] = <<5, 0>>
              /\ sent[2][1] = 5 /\ sent[2][2] = TableReply(fwd_err)
              /\ sent[2][3] = 0

C6_Witness ==
    /\ pc = "done" /\ ret = "Ok"
    /\ fwd_err = "ServiceNoReadyPods"
    /\ sent[2][2] = 5

\* the connect response written, if any
HasConnectResponse == Len(sent) >= 2
Reply == sent[2][2]
\* the bytes of the request from its atype byte to its port
RequestAddrPort == SubSeq(input, auth.used + 4, auth.used + cmd.used)

\* C7 as stated: every connect response other than SUCCEEDED carries
\* 0.0.0.0 and port 0.
C7_FailureAddressUnspecified ==
    (HasConnectResponse /\ Reply /= 0) => sent[2] = FailureFrame(Reply)

\* C7 amended: GENERAL_FAILURE, COMMAND_NOT_SUPPORTED and
\* ADDRESS_NOT_SUPPORTED carry 0.0.0.0 and port 0; HOST_UNREACHABLE and
\* CONNECTION_REFUSED carry the address and port of the request.
C7_FailureAddress ==
    (HasConnectResponse /\ Reply /= 0) =>
        /\ Reply \in {1, 4, 5, 7, 8}
        /\ Reply \in {1, 7, 8} => sent[2] = FailureFrame(Reply)
        /\ Reply \in {4, 5} =>
              /\ cmd.kind = "ok"
              /\ sent[2] = <<5, Reply, 0>> \o RequestAddrPort

C7_Witness ==
    /\ pc = "done"
    /\ fwd_err = "PodNotFound"
    /\ HasConnectResponse /\ Reply = 4
    /\ sent[2] /= FailureFrame(4)

\* C8: a protocol error of the command request is answered with the mapped
\* reply and the resolver is not called: version other than 5 gives
\* GENERAL_FAILURE, an unknown command COMMAND_NOT_SUPPORTED, an unknown
\* address type ADDRESS_NOT_SUPPORTED.
C8_ProtocolErrorMapped ==
    LET answered(reply) ==
          /\ sent = << <<5, 0>>, FailureFrame(reply) >>
          /\ Finished /\ NoBackend /\ NothingRelayed
    IN cmd.kind /= "none" =>
        /\ (CmdLen >= 1 /\ CmdAt(1) /= 5) => answered(1)
        /\ (CmdLen >= 2 /\ CmdAt(1) = 5 /\ CmdAt(2) \notin {1, 2, 3}) => answered(7)
        /\ (CmdLen >= 4 /\ CmdAt(1) = 5 /\ CmdAt(2) \in {1, 2, 3}
              /\ CmdAt(4) \notin {1, 3, 4}) => answered(8)

C8_Witness ==
    /\ pc = "done" /\ ret = "Ok"
    /\ CmdLen >= 4 /\ CmdAt(1) = 5 /\ CmdAt(2) = 1 /\ CmdAt(4) = 7
    /\ sent = << <<5, 0>>, FailureFrame(8) >>

\* C9: a well-formed request whose command is BIND or UDP_ASSOCIATE is
\* answered with COMMAND_NOT_SUPPORTED; the resolver is not called and no
\* port-forward is opened, whatever the address.
C9_NotConnectRejected ==
    (cmd.kind = "ok" /\ CmdAt(2) \in {2, 3}) =>
        /\ sent = << <<5, 0>>, FailureFrame(7) >>
        /\ Finished /\ NoBackend /\ NothingRelayed

C9_Witness ==
    /\ pc = "done" /\ ret = "Ok"
    /\ cmd.kind = "ok" /\ CmdAt(2) = 3 /\ CmdAt(4) = 3
    /\ sent = << <<5, 0>>, FailureFrame(7) >>

\* the v4 request is complete: 8 fixed bytes, then for CONNECT the userid
\* and, for SOCKS4a, the hostname, each ended by a 0 byte
V4Complete ==
    /\ Len(input) >= 8
    /\ input[2] = 1 =>
          \E u \in 9..Len(input) :
              /\ input[u] = 0
              /\ SubSeq(input, 5, 8) = <<0, 0, 0, 1>> =>
                    \E h \in (u + 1)..Len(input) : input[h] = 0

\* C10: the v4 response echoes the request's port and IP; its code is
\* GRANTED (90) if and only if the method is CONNECT and dest_ip is 0.0.0.1,
\* and REJECTED_OR_FAILED (91) otherwise.  The v4 flow never calls the
\* resolver, opens a port-forward or relays.
C10_V4Response ==
    V4Ran =>
        /\ Finished /\ NoBackend /\ NothingRelayed
        /\ Len(sent) <= 1
        /\ V4Complete => Len(sent) = 1
        /\ Len(sent) = 1 =>
              /\ Len(input) >= 8
              /\ sent[1] = <<0, IF input[2] = 1 /\ SubSeq(input, 5, 8) = <<0, 0, 0, 1>>
                                  THEN 90 ELSE 91>>
                           \o SubSeq(input, 3, 8)

C10_Witness ==
    /\ pc = "done" /\ ret = "Ok"
    /\ V4Ran
    /\ sent = << <<0, 90, 0, 80, 0, 0, 0, 1>> >>

(***************************************************************************)
(* The resolver, read from the request's bytes and the cluster's objects.  *)
(***************************************************************************)
\* the command request is a well-formed CONNECT to a DNS name
DnsRequest == cmd.kind = "ok" /\ CmdAt(2) = 1 /\ CmdAt(4) = 3
RequestName == SubSeq(input, auth.used + 6, auth.used + 5 + CmdAt(5))
RequestPort == 256 * CmdAt(6 + CmdAt(5)) + CmdAt(7 + CmdAt(5))
\* the resolver ran on the request's name
Resolved == DnsRequest /\ resolves = 1

ClusterLocalSuffix == <<46, 99, 108, 117, 115, 116, 101, 114, 46, 108, 111, 99, 97, 108>>
EndsWith(s, suffix) ==
    Len(s) >= Len(suffix) /\ SubSeq(s, Len(s) - Len(suffix) + 1, Len(s)) = suffix
StripSuffix(s, suffix) == SubSeq(s, 1, Len(s) - Len(suffix))
\* the last dot-separated label of s is label
EndsInLabel(s, label) == s = label \/ EndsWith(s, <<46>> \o label)
EndsInSvcOrPod(s) ==
    EndsInLabel(s, <<115, 118, 99>>) \/ EndsInLabel(s, <<112, 111, 100>>)

SameResolution(r1, r2) ==
    /\ r1.ok = r2.ok /\ r1.err = r2.err
    /\ r1.pod_name = r2.pod_name /\ r1.namespace = r2.namespace
    /\ r1.port = r2.port

\* C11: for a name n ending in svc or pod, resolving n.cluster.local gives
\* what resolving n gives in the same cluster: the same pod, namespace and
\* port, or the same error kind.
C11_ClusterLocalStripped ==
    Resolved =>
        LET n == RequestName
            stripped == StripSuffix(n, ClusterLocalSuffix)
        IN
        /\ EndsInSvcOrPod(n) =>
              \A fail \in 0..2 :
                  SameResolution(
                      Resolve(cluster, n \o ClusterLocalSuffix, RequestPort, fail),
                      Resolve(cluster, n, RequestPort, fail))
        /\ (EndsWith(n, ClusterLocalSuffix) /\ EndsInSvcOrPod(stripped)) =>
              \E fail \in 0..2 :
                  SameResolution(resolved,
                                 Resolve(cluster, stripped, RequestPort, fail))

C11_Witness ==
    /\ Resolved /\ pc = "done"
    /\ EndsWith(RequestName, ClusterLocalSuffix)
    /\ EndsInSvcOrPod(StripSuffix(RequestName, ClusterLocalSuffix))
    /\ resolved.ok /\ resolved.pod_name = <<112>>

\* the request's name without an optional trailing .cluster.local, in labels
BareName ==
    IF EndsWith(RequestName, ClusterLocalSuffix)
      THEN StripSuffix(RequestName, ClusterLocalSuffix)
      ELSE RequestName
NameLabels == Split(BareName, 46)
SvcForm == Len(NameLabels) = 3 /\ NameLabels[3] = <<115, 118, 99>>
SubSvcForm == Len(NameLabels) = 4 /\ NameLabels[4] = <<115, 118, 99>>
PodForm == Len(NameLabels) = 3 /\ NameLabels[3] = <<112, 111, 100>>

\* the cluster's objects: the services with a name in a namespace, the pods a
\* service selects, a pod's Ready condition
ServicesNamed(namespace, name) ==
    { i \in 1..Len(cluster.services) :
        cluster.services[i].namespace = namespace /\ cluster.services[i].name = name }
SelectedPods(service) ==
    { i \in 1..Len(cluster.pods) :
        /\ cluster.pods[i].namespace = service.namespace
        /\ \A j \in 1..Len(service.selector) :
               service.selector[j] \in cluster.pods[i].labels }
PodIsReady(p) ==
    \E k \in 1..Len(p.conditions) :
        p.conditions[k].type = "Ready" /\ p.conditions[k].status = "True"
PodAnswersTo(p, hostname) ==
    IF p.has_hostname THEN p.hostname = hostname ELSE p.name = hostname

\* C12: the resolver accepts both <service>.<namespace>.svc, which gives a
\* Ready pod the service selects, and <sub>.<service>.<namespace>.svc, which
\* gives the selected pod whose hostname, or else name, is <sub>, and
\* NamedServicePodsNotFound when there is none.
C12_BothServiceForms ==
    (Resolved /\ resolved.err /= "LookupFailed") =>
        /\ (SvcForm /\ resolved.ok) =>
              \E s \in ServicesNamed(NameLabels[2], NameLabels[1]) :
                \E i \in SelectedPods(cluster.services[s]) :
                    /\ cluster.pods[i].name = resolved.pod_name
                    /\ PodIsReady(cluster.pods[i])
        /\ SubSvcForm =>
              \A s \in ServicesNamed(NameLabels[3], NameLabels[2]) :
                (cluster.services[s].has_spec /\ cluster.services[s].has_selector) =>
                  LET named == { i \in SelectedPods(cluster.services[s]) :
                                   PodAnswersTo(cluster.pods[i], NameLabels[1]) }
                  IN IF named = {}
                       THEN resolved.err = "NamedServicePodsNotFound"
                       ELSE /\ resolved.ok
                            /\ \E i \in named :
                                 cluster.pods[i].name = resolved.pod_name

\* C13: a target the resolver returns names a pod that exists in the cluster
\* and has the condition Ready=True, for every form of name; a pod that is
\* not Ready is never returned.
C13_ResolvedPodReady ==
    (Resolved /\ resolved.ok) =>
        \E i \in 1..Len(cluster.pods) :
            /\ cluster.pods[i].namespace = resolved.namespace
            /\ cluster.pods[i].name = resolved.pod_name
            /\ PodIsReady(cluster.pods[i])

MinOf(S) == CHOOSE m \in S : \A x \in S : m <= x
ReadySelectedPods(service) ==
    { i \in SelectedPods(service) : PodIsReady(cluster.pods[i]) }
\* the container ports of pod p with the name nm, as <<container, port>> indices
PortsNamed(p, nm) ==
    { ck \in UNION { {<<c, k>> : k \in 1..Len(p.containers[c])} :
                       c \in 1..Len(p.containers) } :
        /\ p.containers[ck[1]][ck[2]].has_name
        /\ p.containers[ck[1]][ck[2]].name = nm }

\* what section 4.2 step 5 gives for service s, chosen pod p and the
\* requested port
PortMapped(s, p) ==
    LET entries == { j \in 1..Len(s.ports) : s.ports[j].port = RequestPort } IN
    IF entries = {}
      THEN resolved.ok /\ resolved.port = RequestPort
    ELSE LET target == s.ports[MinOf(entries)].target_port IN
      CASE target.t = "Int" ->
             IF target.i \in 0..65535
               THEN resolved.ok /\ resolved.port = target.i
               ELSE resolved.err = "ServiceInvalid"
        [] target.t = "String" ->
             LET named == PortsNamed(p, target.s) IN
             IF named = {} THEN resolved.err = "PortNotFound"
             ELSE \E ck \in named :
                    LET cp == p.containers[ck[1]][ck[2]].container_port IN
                    IF cp \in 0..65535
                      THEN resolved.ok /\ resolved.port = cp
                      ELSE resolved.err = "PortNotFound"
        [] OTHER -> resolved.ok /\ resolved.port = RequestPort

\* C14: for <service>.<namespace>.svc resolved to a Ready pod the port comes
\* from the first Service ports entry whose port is the requested port: an
\* integer targetPort as is when it fits u16, else ServiceInvalid; a named
\* targetPort as the containerPort of the pod's container port of that name,
\* else PortNotFound; with no matching entry the requested port, unchanged.
C14_PortMapping ==
    (Resolved /\ SvcForm /\ resolved.err /= "LookupFailed") =>
        \A si \in ServicesNamed(NameLabels[2], NameLabels[1]) :
            LET s == cluster.services[si] IN
            (s.has_spec /\ s.has_selector /\ ReadySelectedPods(s) /= {}) =>
                LET p == cluster.pods[MinOf(ReadySelectedPods(s))] IN
                /\ PortMapped(s, p)
                /\ resolved.ok => resolved.pod_name = p.name

C14_Witness ==
    /\ Resolved /\ SvcForm /\ pc = "done"
    /\ RequestPort = 80
    /\ resolved.ok /\ resolved.port = 8080
    /\ Len(cluster.services[1].ports) = 3

\* C15: a CONNECT to <service>.<namespace>.svc whose Service exists without
\* a spec.selector is answered with GENERAL_FAILURE: the resolver returns
\* ServiceInvalid after the Service lookup alone, no pods are listed and no
\* port-forward is opened.
C15_NoSelector ==
    (Resolved /\ SvcForm
       /\ \E si \in ServicesNamed(NameLabels[2], NameLabels[1]) :
              ~cluster.services[si].has_selector) =>
        /\ resolved.err \in {"ServiceInvalid", "LookupFailed"}
        /\ resolved.api = <<"get_service">>
        /\ sessions = 0 /\ stream = "none" /\ NothingRelayed
        /\ Finished => sent = << <<5, 0>>, FailureFrame(1) >>

C15_Witness ==
    /\ Resolved /\ SvcForm /\ pc = "done"
    /\ resolved.err = "ServiceInvalid"
    /\ cluster.services[1].has_spec /\ ~cluster.services[1].has_selector
    /\ sent = << <<5, 0>>, FailureFrame(1) >>

\* C16: a name that, without an optional trailing cluster.local, does not
\* end in the label svc or pod gives UnsupportedAddress without any cluster
\* API call, and the client receives ADDRESS_NOT_SUPPORTED.
C16_UnsupportedName ==
    (Resolved /\ ~EndsInSvcOrPod(BareName)) =>
        /\ resolved.err = "UnsupportedAddress"
        /\ resolved.api = <<>>
        /\ sessions = 0 /\ stream = "none" /\ NothingRelayed
        /\ Finished => sent = << <<5, 0>>, FailureFrame(8) >>

C16_Witness ==
    /\ Resolved /\ pc = "done"
    /\ RequestName = <<99, 108, 117, 115, 116, 101, 114, 46, 108, 111, 99, 97, 108>>
    /\ sent = << <<5, 0>>, FailureFrame(8) >>

(***************************************************************************)
(* The relay.                                                              *)
(***************************************************************************)
\* the length of the v5 handshake of a CONNECT to a DNS name, in the input
HandshakeLen == 2 + input[2] + 7 + CmdAt(5)
ClientBytes == SubSeq(input, HandshakeLen + 1, Len(input))

\* C17: each direction of the relay forwards its bytes verbatim and in
\* order; end of stream on one direction shuts only that direction down and
\* the other keeps forwarding; the relay ends with success exactly when both
\* directions have reached end of stream, and otherwise only by an error.
C17_Relay ==
    SuccessSent =>
        /\ to_pod = SubSeq(ClientBytes, 1, Len(to_pod))
        /\ to_client = SubSeq(pod_out, 1, Len(to_client))
        /\ c2p = "done" => to_pod = ClientBytes
        /\ p2c = "done" => to_client = pod_out
        /\ pc = "relay" =>
              /\ stream = "held"
              /\ (p2c = "running" /\ to_client /= pod_out) => ENABLED RelayPodToClient
              /\ (c2p = "running" /\ to_pod /= ClientBytes) => ENABLED RelayClientToPod
              /\ (c2p = "done" /\ p2c = "done") =>
                    ENABLED RelayDone /\ ~ENABLED RelayError
              /\ (c2p = "running" \/ p2c = "running") => ~ENABLED RelayDone
        /\ Finished =>
              /\ res \in {"Ok", "Io"}
              /\ res = "Ok" <=> (c2p = "done" /\ p2c = "done")

C17_Witness ==
    /\ SuccessSent /\ pc = "done" /\ res = "Ok"
    /\ Len(ClientBytes) = 2 /\ to_pod = ClientBytes
    /\ Len(pod_out) = 2 /\ to_client = pod_out

(***************************************************************************)
(* The acceptor.                                                           *)
(***************************************************************************)
AcceptStep == \E f \in Families : Accept(f)

\* C18: an accept error on one listener stops only that listener; the
\* proxy keeps accepting connections of the other address family and
\* spawning their handlers.
C18_OtherListenerContinues ==
    \A f \in Families :
        (f \in accept_errors /\ ~signal /\ Len(tasks) < MaxConns) =>
            \A g \in Families \ accept_errors :
                acc_pc = "accepting" /\ ENABLED Accept(g)

\* C19: once the interrupt has been received no further handler is spawned
\* and the accept loop ends with success; the connections accepted before
\* it are not cancelled by the loop's ending.
C19_GracefulShutdown ==
    /\ signal => ~ENABLED AcceptStep
    /\ (signal /\ acc_pc /= "accepting") => loop_result = "Ok"
    /\ signal => \A i \in 1..Len(tasks) : tasks[i].state /= "cancelled"

TagPositions(n) == { i \in 3..(2 + n) : input[i] \in {0, 1, 2, 255} }

\* C21: AuthRequest::parse fails when the first byte is not 5; otherwise it
\* reads the count n and exactly n further bytes and returns, in the order
\* offered, exactly the bytes among them that are 0, 1, 2 or 255; for n = 0
\* it returns the empty list and reads nothing more.
C21_AuthParse ==
    auth.kind /= "none" =>
        /\ auth.used <= Len(input)
        /\ (Len(input) >= 1 /\ input[1] /= 5) =>
              auth.kind = "protocol" /\ auth.used = 1
        /\ (Len(input) >= 1 /\ input[1] = 5) =>
              IF Len(input) < 2 \/ Len(input) < 2 + input[2]
                THEN auth.kind = "io"
                ELSE /\ auth.kind = "ok"
                     /\ auth.used = 2 + input[2]
                     /\ Len(auth.val) = Cardinality(TagPositions(input[2]))
                     /\ \A i \in TagPositions(input[2]) :
                          auth.val[Cardinality({ j \in TagPositions(input[2]) : j <= i })]
                            = input[i]
        /\ Len(input) = 0 => auth.kind = "io"

C21_Witness ==
    /\ auth.kind = "ok"
    /\ input = <<5, 3, 0, 3, 255>>
    /\ auth.val = <<0, 255>> /\ auth.used = 5

\* C22: the SUCCESS response of a CONNECT to a DNS name echoes the request:
\* 05 00 00 03, the length and bytes of the requested name, and the
\* requested port in big-endian, not the container port the resolver gave.
C22_SuccessEchoesRequest ==
    /\ (stream /= "none" /\ Len(sent) >= 2) => SuccessSent
    /\ SuccessSent =>
          /\ DnsRequest /\ resolved.ok
          /\ sent[2] = <<5, 0, 0, 3, Len(RequestName)>> \o RequestName
                       \o <<RequestPort \div 256, RequestPort % 256>>

C22_Witness ==
    /\ SuccessSent /\ pc = "done"
    /\ RequestPort = 80 /\ resolved.port = 8080
    /\ sent[2] = <<5, 0, 0, 3, 7, 97, 46, 110, 46, 115, 118, 99, 0, 80>>

(***************************************************************************)
(* The frames written to the client.                                       *)
(***************************************************************************)
V5Connection == Len(input) >= 1 /\ input[1] = 5

\* at most one auth response, then at most one connect response; after
\* SUCCESS the client gets the pod's bytes and nothing else
FramesOnce ==
    V5Connection =>
        /\ Len(sent) <= 2
        /\ Len(sent) >= 1 => sent[1] \in {<<5, 0>>, <<5, 255>>}
        /\ Len(sent) = 2 =>
              /\ sent[1] = <<5, 0>>
              /\ sent[2][1] = 5 /\ sent[2][3] = 0 /\ Len(sent[2]) >= 10
        /\ to_client = SubSeq(pod_out, 1, Len(to_client))
        /\ ~SuccessSent => to_client = <<>>

\* C23: a v5 connection gets at most one auth response and at most one
\* connect response; once SUCCESS is written no further frame is written,
\* also when the relay fails or join fails; every byte the client gets after
\* SUCCESS is a byte received from the pod stream.
C23_NoFrameAfterSuccess ==
    /\ []FramesOnce
    /\ [][SuccessSent => sent' = sent]_vars

C23_Witness ==
    /\ V5Connection /\ SuccessSent /\ pc = "done"
    /\ ret = "JoinError" /\ res = "Io"
    /\ Len(sent) = 2 /\ Len(to_client) = 1

\* the length of the command request in the input, by its atype byte
FrameLen ==
    IF CmdAt(4) = 1 THEN 4 + 4 + 2
    ELSE IF CmdAt(4) = 4 THEN 4 + 16 + 2
    ELSE 4 + 1 + CmdAt(5) + 2

\* C24: CommandRequest::parse consumes exactly the frame: version, command,
\* reserved, atype, 4, 16 or 1 + length address bytes, 2 port bytes and
\* nothing more; the first byte relayed to the pod is the first client byte
\* after the port, and no client byte is lost or duplicated.
C24_CommandConsumesFrame ==
    cmd.kind = "ok" =>
        /\ CmdAt(4) \in {1, 3, 4}
        /\ cmd.used = FrameLen
        /\ pos = 2 + input[2] + FrameLen + Len(to_pod)
        /\ to_pod = SubSeq(input, 2 + input[2] + FrameLen + 1, pos)

C24_Witness ==
    /\ cmd.kind = "ok" /\ pc = "done" /\ SuccessSent
    /\ cmd.used = 14
    /\ to_pod = <<201, 202>>

(***************************************************************************)
(* The version dispatch.                                                   *)
(***************************************************************************)
FirstByteIs(v) == Len(input) >= 1 /\ input[1] = v

\* first byte 4: only the v4 flow, which reads the byte as its version
OnlyV4 ==
    FirstByteIs(4) =>
        /\ pc \in {"peek", "v4", "join", "done"}
        /\ auth.kind = "none" /\ cmd.kind = "none" /\ NoBackend
        /\ (res /= "pending") => pos >= 1
        /\ Len(sent) <= 1
        /\ Len(sent) = 1 =>
              sent[1][1] = 0 /\ SubSeq(sent[1], 3, 8) = SubSeq(input, 3, 8)

\* first byte 5: only the v5 flow, whose auth parser reads the byte as its
\* version and so never fails on it
OnlyV5 ==
    FirstByteIs(5) =>
        /\ pc /= "v4"
        /\ auth.kind /= "protocol"
        /\ auth.kind = "ok" => auth.used = 2 + input[2] /\ pos >= auth.used
        /\ \A k \in 1..Len(sent) : sent[k][1] = 5

\* any other first byte, or none: neither flow, no resolver, and
\* UnsupportedVersion unless the peek itself failed
NeitherFlow ==
    (~FirstByteIs(4) /\ ~FirstByteIs(5)) =>
        /\ pc \in {"peek", "join", "done"}
        /\ auth.kind = "none" /\ cmd.kind = "none"
        /\ sent = <<>> /\ pos = 0 /\ NoBackend /\ NothingRelayed /\ joins = 0
        /\ pc = "join" => res = "UnsupportedVersion"
        /\ pc = "done" =>
              \/ ret = "UnsupportedVersion" /\ res = "UnsupportedVersion"
              \/ ret = "Io" /\ res = "pending"

\* C25: the first byte selects the flow without being consumed: 4 runs only
\* the v4 flow, 5 only the v5 flow, each reading that byte again as its
\* version; for any other first byte neither flow runs, the resolver is not
\* called and handle returns UnsupportedVersion after running join.
C25_VersionDispatch ==
    /\ [](OnlyV4 /\ OnlyV5 /\ NeitherFlow)
    /\ [][(ret = "pending" /\ ret' = "UnsupportedVersion") => pc = "join"]_vars

C25_Witness ==
    /\ input = <<6, 1, 0>>
    /\ pc = "done" /\ ret = "UnsupportedVersion"
    /\ sent = <<>> /\ resolves = 0

(***************************************************************************)
(* The connection tasks among themselves.                                  *)
(***************************************************************************)
\* whatever the other tasks are waiting for, the acceptor can accept and
\* every running task can take its next step or end
NothingWaitsForAnother ==
    /\ \A f \in Families :
          (acc_pc = "accepting" /\ ~signal /\ Len(tasks) < MaxConns) =>
              ENABLED Accept(f)
    /\ \A j \in 1..Len(tasks) :
          (acc_pc /= "exited" /\ tasks[j].state = "running") =>
              /\ ENABLED TaskFinish(j)
              /\ tasks[j].at /= "join" => ENABLED TaskStep(j)

\* a step of the acceptor adds a task and leaves the others as they are; a
\* step of a task changes that task alone
OwnStateOnly ==
    /\ Len(tasks') >= Len(tasks)
    /\ Len(tasks') > Len(tasks) =>
          Len(tasks') = Len(tasks) + 1 /\ SubSeq(tasks', 1, Len(tasks)) = tasks
    /\ (Len(tasks') = Len(tasks) /\ acc_pc' = acc_pc) =>
          Cardinality({ i \in 1..Len(tasks) : tasks'[i] /= tasks[i] }) <= 1

\* C26: connections are handled independently: a task blocked at any step
\* never keeps the acceptor from accepting nor another connection from its
\* handshake, resolve and relay, and no handler step reads or writes the
\* state of another connection.
C26_Independent ==
    /\ []NothingWaitsForAnother
    /\ [][OwnStateOnly]_vars

C26_Witness ==
    /\ acc_pc = "accepting" /\ ~signal
    /\ Len(tasks) = 3
    /\ tasks[1].state = "running" /\ tasks[1].at = "resolve"
    /\ tasks[2].state = "finished"
    /\ tasks[3].state = "running" /\ tasks[3].at = "relay"

(***************************************************************************)
(* The join at the end of handle.                                          *)
(***************************************************************************)
\* the pod stream is released before join is awaited, and the join's error
\* goes before the handler's
JoinAfterRelease ==
    /\ (pc = "join" \/ join_res /= "pending") => stream /= "held"
    /\ join_res /= "pending" => pc = "done"
    /\ join_res = "JoinError" => ret = "JoinError" /\ joins = 1
    /\ join_res = "Ok" => ret = res

\* C27: on every path through handle the pod stream is released before
\* join is awaited; given that the join of a released session completes,
\* the task exits after the relay ends; when both the handler and the join
\* fail, the join's error is the one returned.
C27_JoinLast ==
    /\ []JoinAfterRelease
    /\ (pc = "join") ~> (pc = "done")

C27_Witness ==
    /\ pc = "done" /\ SuccessSent
    /\ stream = "dropped"
    /\ res = "Io" /\ join_res = "JoinError" /\ ret = "JoinError"

=============================================================================
